---- MODULE Spec2Model ----
(***************************************************************************)
(* State-machine model of src/bot.py: a Telegram bot that takes an         *)
(* uploaded file, asks for a file name and answers with a PDF.             *)
(*                                                                         *)
(* Modelled state: the conversation table of the ConversationHandler       *)
(* (keyed by chat and user), context.user_data (keyed by user), the part   *)
(* of the filesystem the bot touches (the mkdtemp directories and the      *)
(* process's current directory), the LibreOffice child process, and the    *)
(* single event loop on which all handlers run.                            *)
(*                                                                         *)
(* Environment assumptions, stated once:                                   *)
(*  - updates are processed one at a time (ApplicationBuilder() default);  *)
(*  - reply_text always succeeds; get_file/download_to_drive and           *)
(*    reply_document may fail;                                             *)
(*  - a file name is a pair <<stem, suffix>>, the way pathlib splits it;   *)
(*  - the directory mkdtemp creates in (tempfile.gettempdir()) is not the  *)
(*    process's current directory nor inside it.                           *)
(***************************************************************************)
EXTENDS Integers, Sequences, FiniteSets, TLC

\* ------------------------------------------------------------------ bounds

\* number of tempfile.mkdtemp calls explored
MaxDirs == 2

\* longest freely chosen tail of the texts sanitize_filename is explored with
MaxText == 2

\* ------------------------------------------------------------- constants

WAIT_FILE == 0
WAIT_NAME == 1
END == -1

MaxBytes == 20971520
TimeoutSec == 90
DefaultMaxLen == 64

IMAGE_EXTS == {".png", ".jpg", ".jpeg", ".webp"}
TEXT_EXTS == {".txt", ".md", ".log", ".csv"}
OFFICE_EXTS == {".doc", ".docx", ".ppt", ".pptx", ".xls", ".xlsx",
                ".odt", ".ods", ".odp", ".rtf"}

\* --------------------------------------------------------------- universe

Users == {"u1", "u2"}
Chats == {"c1", "c2"}

\* conversation keys (chat_id, user_id): u1 talks to the bot in two chats,
\* u2 in one
Keys == {<<"c1", "u1">>, <<"c2", "u1">>, <<"c1", "u2">>}

UserOf(k) == k[2]

\* uploaded bytes; b1 decodes as a raster image, b2 does not
Blobs == {"b1", "b2"}
ImageBlobs == {"b1"}
ImageNames == {<<"scan", ".png">>}

\* file names as pathlib splits them: <<stem, suffix>>
NoName == <<"", "">>
OutputPdf == <<"output", ".pdf">>
DefaultDocName == <<"file", "">>
PhotoName == <<"photo", ".jpg">>

\* doc.file_name values the conversations are explored with (NoName stands
\* for a missing file_name)
DocNames == {<<"cv", ".PDF">>, <<"cv", ".docx">>, <<"scan", ".png">>}

\* input names the dispatcher alone is explored with
DispatchNames == {<<"output", ".pdf">>, <<"cv", ".pdf">>, <<"cv", ".PDF">>,
                  <<"cv", ".docx">>, <<"output", ".docx">>, <<"cv", ".DOCX">>,
                  <<"notes", ".txt">>, <<"notes", ".TXT">>, <<"scan", ".png">>,
                  <<"scan", ".JPG">>, <<"data", ".xyz">>, <<"file", "">>}

\* declared sizes explored: -1 stands for file_size = None
NoSize == -1
DocSizes == {NoSize, 0, MaxBytes, MaxBytes + 1}

\* the directory names tempfile.mkdtemp(prefix="tg_pdf_") hands out
TmpNames == <<"tg_pdf_1", "tg_pdf_2", "tg_pdf_3", "tg_pdf_4", "tg_pdf_5">>
Cwd == "."

\* where find_soffice looks, in order
EngineCandidates == <<"PATH/soffice", "PATH/libreoffice",
                      "/Applications/LibreOffice.app/Contents/MacOS/soffice",
                      "~/Applications/LibreOffice.app/Contents/MacOS/soffice">>
NoEngine == "None"

\* hosts explored: nothing installed; libreoffice on PATH and a macOS install
Hosts == { {}, {"PATH/libreoffice",
                "~/Applications/LibreOffice.app/Contents/MacOS/soffice"} }

\* ------------------------------------------------------------------ paths

\* a path: a directory and a name inside it (NoName: the directory itself)
MkPath(d, n) == [dir |-> d, name |-> n]

\* str values kept in user_data are paths written out; "" is EmptyStr
EmptyStr == MkPath("", NoName)

\* pathlib.Path(s): Path("") is the current directory
Path(s) == IF s = EmptyStr THEN MkPath(Cwd, NoName) ELSE s

\* p / name
Join(p, n) == MkPath(p.dir, n)

Suffix(p) == p.name[2]
Stem(p) == p.name[1]

\* str.lower on the suffixes that occur
Lower(s) ==
  CASE s = ".PDF" -> ".pdf"
    [] s = ".PNG" -> ".png"
    [] s = ".JPG" -> ".jpg"
    [] s = ".DOCX" -> ".docx"
    [] s = ".TXT" -> ".txt"
    [] OTHER -> s

\* stem + ".pdf" as a file name: "" + ".pdf" is the hidden file ".pdf",
\* which pathlib splits into stem ".pdf" and no suffix
StemPdf(stem) == IF stem = "" THEN <<".pdf", "">> ELSE <<stem, ".pdf">>

\* fnmatch of a name against "*.pdf" (case sensitive)
MatchesPdfGlob(n) == n[2] = ".pdf" \/ n = <<".pdf", "">>

\* ------------------------------------------------------------- filesystem

\* file contents: how they were made and from which uploaded bytes
Raw(b) == [enc |-> "raw", of |-> b]
NoData == [enc |-> "none", of |-> ""]

MkFile(p, data, mtime) == [dir |-> p.dir, name |-> p.name, data |-> data, mtime |-> mtime]

FileAt(F, p) == {f \in F : f.dir = p.dir /\ f.name = p.name}

IsFile(F, p) == p.name # NoName /\ FileAt(F, p) # {}

IsDir(D, p) == p.name = NoName /\ p.dir \in D

\* Path.exists()
Exists(D, F, p) == IsDir(D, p) \/ (p.dir \in D /\ IsFile(F, p))

DataAt(F, p) == IF IsFile(F, p) THEN (CHOOSE f \in FileAt(F, p) : TRUE).data ELSE NoData

InDir(F, d) == {f \in F : f.dir = d}

\* the latest st_mtime among the files of a directory (0 when it is empty)
NewestMtime(F, d) ==
  IF InDir(F, d) = {} THEN 0
  ELSE CHOOSE m \in {f.mtime : f \in InDir(F, d)} : \A g \in InDir(F, d) : g.mtime <= m

\* writing a file replaces what was at the path and stamps it as the newest
WriteFile(F, p, data) ==
  (F \ FileAt(F, p)) \cup {MkFile(p, data, NewestMtime(F, p.dir) + 1)}

\* rmtree leaving the directory in place
RmtreeDirs_kept(D, p) == D

\* shutil.rmtree(p, ignore_errors=True): the directory and its content go;
\* the current directory itself cannot be removed, only emptied
RmtreeDirs(D, p) == IF p.name = NoName /\ p.dir # Cwd THEN D \ {p.dir} ELSE D
RmtreeFiles(F, p) == IF p.name = NoName THEN {f \in F : f.dir # p.dir} ELSE F

\* ------------------------------------------------------------- exceptions

Exc(cls, text) == [cls |-> cls, text |-> text]
NoExc == Exc("", "")

Ok(F, p) == [exc |-> NoExc, files |-> F, path |-> p]
Fail(F, e) == [exc |-> e, files |-> F, path |-> EmptyStr]

EngineNotFound ==
  Exc("RuntimeError", "LibreOffice not found. Install LibreOffice, or make sure 'soffice' is available.")
NoOutputProduced ==
  Exc("RuntimeError", "LibreOffice conversion finished but no PDF was created.")
TimeoutExpired == Exc("TimeoutExpired", "Command timed out after 90 seconds")
CalledProcessError == Exc("CalledProcessError", "Command returned non-zero exit status 1.")
SameFileError == Exc("SameFileError", "src and dst are the same file")
IsADirectoryError == Exc("IsADirectoryError", "Is a directory")
ImageOpenError == Exc("ImageOpenError", "cannot read input image")
TelegramError == Exc("TelegramError", "request failed")

\* ---------------------------------------------------------------- backends

\* shutil.copyfile(src, dst)
copyfile(F, src, dst) ==
  IF src = dst /\ IsFile(F, src) THEN Fail(F, SameFileError)
  ELSE IF ~IsFile(F, src) THEN Fail(F, IsADirectoryError)
  ELSE Ok(WriteFile(F, dst, DataAt(F, src)), dst)

\* find_soffice returning its first candidate without looking for it
find_soffice_unchecked(inst) == EngineCandidates[1]

find_soffice(inst) ==
  LET hits == {i \in 1..Len(EngineCandidates) : EngineCandidates[i] \in inst}
  IN  IF hits = {} THEN NoEngine
      ELSE EngineCandidates[CHOOSE i \in hits : \A j \in hits : i <= j]

convert_text_to_pdf(F, input_path, pdf_path) ==
  IF ~IsFile(F, input_path) THEN Fail(F, IsADirectoryError)
  ELSE Ok(WriteFile(F, pdf_path, [enc |-> "reportlab", of |-> DataAt(F, input_path).of]), pdf_path)

convert_image_to_pdf(F, input_path, pdf_path) ==
  IF ~IsFile(F, input_path) THEN Fail(F, IsADirectoryError)
  ELSE IF DataAt(F, input_path).of \notin ImageBlobs THEN Fail(F, ImageOpenError)
  ELSE Ok(WriteFile(F, pdf_path, [enc |-> "img2pdf", of |-> DataAt(F, input_path).of]), pdf_path)

\* One run of the engine: how long it takes, the exit code it ends with if
\* it is left to end, and the PDFs it leaves in --outdir, each with its place
\* in the mtime order. What a failed or killed run leaves behind is never
\* looked at (the directory is removed unread), so only runs that end in time
\* with exit code 0 are given output files.
EngineNames(input_path) == {StemPdf(Stem(input_path)), <<"export", ".pdf">>, OutputPdf}
EngineRuns(input_path) ==
  {run \in [secs : {1, TimeoutSec + 1}, code : {0, 1},
            written : UNION {[S -> 1..2] : S \in SUBSET EngineNames(input_path)}] :
     /\ run.secs > TimeoutSec => run.code = 1
     /\ DOMAIN run.written # {} => run.secs <= TimeoutSec /\ run.code = 0}
NoRun == [secs |-> 0, code |-> 0, written |-> <<>>]

\* the runs the conversations are explored with: at most one PDF written
SessionRuns(input_path) ==
  {run \in EngineRuns(input_path) :
     /\ Cardinality(DOMAIN run.written) <= 1
     /\ \A n \in DOMAIN run.written : run.written[n] = 1 /\ n # OutputPdf}

\* subprocess.run called without timeout=: a slow child is waited for
RunOutcome_untimed(run, timeout_sec) == IF run.code # 0 THEN "failed" ELSE "exit0"

\* subprocess.run(cmd, check=True, timeout=timeout_sec) (line 134): what the
\* caller gets
RunOutcome(run, timeout_sec) ==
  IF run.secs > timeout_sec THEN "timeout"
  ELSE IF run.code # 0 THEN "failed"
  ELSE "exit0"

\* the files of out_dir after the engine ran; each PDF it wrote has its own
\* content, told apart by the name it was written under
EngineWrites(F, input_path, out_dir, run) ==
  LET base == NewestMtime(F, out_dir.dir)
      new == {MkFile(Join(out_dir, n), [enc |-> "soffice", of |-> n[1]],
                     base + run.written[n]) : n \in DOMAIN run.written}
  IN  {f \in F : ~(f.dir = out_dir.dir /\ f.name \in DOMAIN run.written)} \cup new

\* out_dir.glob("*.pdf")
GlobPdf(F, out_dir) == {f \in InDir(F, out_dir.dir) : MatchesPdfGlob(f.name)}

\* the possible pdfs[0] of sorted(..., key=st_mtime, reverse=True): equal
\* mtimes keep the order glob listed them in, which is not specified
NewestPdfs(F, out_dir) ==
  {f \in GlobPdf(F, out_dir) : \A g \in GlobPdf(F, out_dir) : g.mtime <= f.mtime}

\* convert_office_to_pdf: the set of possible results; `run` is what
\* subprocess.run meets when it is reached
convert_office_to_pdf(D, F, input_path, out_dir, inst, run) ==
  IF find_soffice(inst) = NoEngine THEN {Fail(F, EngineNotFound)}
  ELSE IF RunOutcome(run, TimeoutSec) = "timeout"
       THEN {Fail(EngineWrites(F, input_path, out_dir, run), TimeoutExpired)}
  ELSE IF RunOutcome(run, TimeoutSec) = "failed"
       THEN {Fail(EngineWrites(F, input_path, out_dir, run), CalledProcessError)}
  ELSE LET F1 == EngineWrites(F, input_path, out_dir, run)
           expected == Join(out_dir, StemPdf(Stem(input_path)))
       IN  IF Exists(D, F1, expected) THEN {Ok(F1, expected)}
           ELSE IF GlobPdf(F1, out_dir) = {} THEN {Fail(F1, NoOutputProduced)}
           ELSE {Ok(F1, MkPath(f.dir, f.name)) : f \in NewestPdfs(F1, out_dir)}

\* --------------------------------------------------------------- dispatcher

\* the if-chain without the "or True" of its last test: a suffix outside
\* the three sets selects nothing
Strategy_listed(ext) ==
  IF ext = ".pdf" THEN "PassThrough"
  ELSE IF ext \in IMAGE_EXTS THEN "Image"
  ELSE IF ext \in TEXT_EXTS THEN "Text"
  ELSE IF ext \in OFFICE_EXTS THEN "OfficeSuite"
  ELSE "None"

\* the if-chain of convert_to_pdf as a classification of the suffix
Strategy(ext) ==
  IF ext = ".pdf" THEN "PassThrough"
  ELSE IF ext \in IMAGE_EXTS THEN "Image"
  ELSE IF ext \in TEXT_EXTS THEN "Text"
  ELSE IF ext \in OFFICE_EXTS \/ TRUE THEN "OfficeSuite"
  ELSE "None"

\* does convert_to_pdf reach subprocess.run for this input on this host
ReachesEngine(input_path, inst) ==
  Strategy(Lower(Suffix(input_path))) = "OfficeSuite" /\ find_soffice(inst) # NoEngine

\* convert_to_pdf: the set of possible results
convert_to_pdf(D, F, input_path, work_dir, inst, run) ==
  LET ext == Lower(Suffix(input_path))
      pdf_path == Join(work_dir, OutputPdf)
  IN  IF Strategy(ext) = "PassThrough" THEN {copyfile(F, input_path, pdf_path)}
      ELSE IF Strategy(ext) = "Image" THEN {convert_image_to_pdf(F, input_path, pdf_path)}
      ELSE IF Strategy(ext) = "Text" THEN {convert_text_to_pdf(F, input_path, pdf_path)}
      ELSE {IF r.exc # NoExc THEN r ELSE copyfile(r.files, r.path, pdf_path) :
              r \in convert_office_to_pdf(D, F, input_path, work_dir, inst, run)}

\* ------------------------------------------------------------ session data

\* a user's context.user_data: the keys present and their values
EmptyDict == [keys |-> {}, work_dir |-> EmptyStr, input_path |-> EmptyStr]

dict_get(d, k, default) == IF k \in d.keys THEN d[k] ELSE default

dict_set(d, k, v) == [d EXCEPT !.keys = @ \cup {k}, ![k] = v]

\* ------------------------------------------------------------------ replies

Reply(msg, arg) == [msg |-> msg, arg |-> arg]

StartReply == Reply("Send me a file (document/photo). I'll convert it to PDF.", "")
CancelReply == Reply("Cancelled. Send /start to begin again.", "")
PromptReply == Reply("Please send a document or a photo.", "")
TooBigReply == Reply("That file looks bigger than 20MB.", "")
DownloadFailedReply == Reply("Failed to download your file: ", TelegramError.text)
GotItReply == Reply("Got it. Now send the PDF filename you want (without .pdf).", "")
LostContextReply == Reply("I lost the file context. Send /start and upload again.", "")
ConvertingReply == Reply("Converting...", "")
DocumentReply == Reply("<document>", "")
DoneReply == Reply("Done. Send another file anytime.", "")

\* the except clauses reduced to one that does not show the error
ExceptReply_generic(e) == Reply("Conversion failed.", "")

\* the except clauses of receive_name_and_convert, in their order
ExceptReply(e) ==
  IF e.cls = "TimeoutExpired" THEN Reply("Conversion timed out. Try a smaller/simple file.", "")
  ELSE IF e.cls = "CalledProcessError" THEN Reply("LibreOffice conversion failed. Error: ", e.text)
  ELSE Reply("Conversion failed: ", e.text)

\* ------------------------------------------------------------------ updates

UpdateKinds == {"/start", "/cancel", "document", "photo", "text"}

\* the wiring with WAIT_NAME taking filters.TEXT, commands included
Route_text_commands(state, kind) ==
  IF kind = "/start" THEN "start"
  ELSE IF state = WAIT_FILE /\ kind \in {"document", "photo"} THEN "receive_file"
  ELSE IF state = WAIT_NAME /\ kind \in {"text", "/cancel"} THEN "receive_name_and_convert"
  ELSE IF kind = "/cancel" THEN "cancel"
  ELSE "none"

\* the handler that main's wiring gives an update of this kind, for a
\* conversation in this state (END: no conversation for the key)
Route(state, kind) ==
  IF kind = "/start" THEN "start"
  ELSE IF state = WAIT_FILE /\ kind \in {"document", "photo"} THEN "receive_file"
  ELSE IF state = WAIT_NAME /\ kind = "text" THEN "receive_name_and_convert"
  ELSE IF kind = "/cancel" THEN "cancel"
  ELSE "none"

\* a document or photo message: its file name, declared size and bytes
\* (a document with an image suffix is tried with undecodable bytes, a photo
\* with decodable ones,
\* and declared sizes other than None or just over the limit with one name)
Uploads ==
  {m \in [kind : {"document"}, file_name : DocNames,
          file_size : DocSizes, blob : Blobs] :
     /\ (m.blob \in ImageBlobs) = (m.file_name \notin ImageNames)
     /\ m.file_size \in {NoSize, MaxBytes + 1} \/ m.file_name = <<"cv", ".PDF">>}
    \cup [kind : {"photo"}, file_name : {NoName}, file_size : {NoSize, MaxBytes + 1},
          blob : ImageBlobs]

\* -------------------------------------------------------------------- state

VARIABLES
  conv,       \* ConversationHandler: state of each (chat, user) key, END if none
  user_data,  \* context.user_data of each user
  dirs,       \* the directories that exist
  files,      \* the files that exist
  made,       \* how many directories mkdtemp has made
  installed,  \* the engine locations present on the host
  children,   \* the keys whose LibreOffice child process is running
  inflight,   \* the handler blocked in subprocess.run, if any
  jobDir,     \* per key: the directory its file step made for the current job
  last        \* what the last handler run did

vars == <<conv, user_data, dirs, files, made, installed, children, inflight, jobDir, last>>

NoKey == <<"", "">>
Idle == [key |-> NoKey, work_dir |-> EmptyStr, input_path |-> EmptyStr]

NoLast ==
  [handler |-> "none", key |-> NoKey, from |-> END, ret |-> END, branch |-> "",
   replies |-> <<>>, over |-> FALSE, download |-> FALSE,
   work_dir |-> EmptyStr, input_path |-> EmptyStr, inData |-> NoData,
   keys |-> {}, dispatches |-> 0, spawns |-> 0, secs |-> 0, run |-> "none", seen |-> {},
   exc |-> NoExc, outData |-> NoData, delivered |-> NoData, jobDir |-> "",
   text |-> <<>>, desired |-> <<>>]

Init ==
  /\ conv = [k \in Keys |-> END]
  /\ user_data = [u \in Users |-> EmptyDict]
  /\ dirs = {Cwd}
  /\ files = {MkFile(MkPath(Cwd, <<"bot", ".py">>), Raw("src"), 1)}
  /\ made = 0
  /\ installed \in Hosts
  /\ children = {}
  /\ inflight = Idle
  /\ jobDir = [k \in Keys |-> ""]
  /\ last = NoLast

\* All handlers are coroutines of one event loop and updates are processed
\* one after the other: a handler starts only when none is running.
LoopFree == inflight = Idle

\* ----------------------------------------------------------------- handlers

\* start (lines 171-176); with allow_reentry it also restarts a conversation
Start(k) ==
  /\ LoopFree
  /\ Route(conv[k], "/start") = "start"
  /\ conv' = [conv EXCEPT ![k] = WAIT_FILE]
  /\ jobDir' = [jobDir EXCEPT ![k] = ""]
  /\ last' = [NoLast EXCEPT !.handler = "start", !.key = k, !.from = conv[k],
                            !.ret = WAIT_FILE, !.replies = <<StartReply>>,
                            !.jobDir = jobDir[k]]
  /\ UNCHANGED <<user_data, dirs, files, made, installed, children, inflight>>

\* cancel (lines 178-181): as a fallback of the conversation it ends it; as
\* the stand-alone handler its return value is ignored
Cancel(k) ==
  /\ LoopFree
  /\ Route(conv[k], "/cancel") = "cancel"
  /\ user_data' = [user_data EXCEPT ![UserOf(k)] = EmptyDict]
  /\ conv' = [conv EXCEPT ![k] = END]
  /\ jobDir' = [jobDir EXCEPT ![k] = ""]
  /\ last' = [NoLast EXCEPT !.handler = "cancel", !.key = k, !.from = conv[k],
                            !.ret = END, !.replies = <<CancelReply>>,
                            !.jobDir = jobDir[k]]
  /\ UNCHANGED <<dirs, files, made, installed, children, inflight>>

\* original_name of receive_file (lines 192-202)
original_name(msg) ==
  IF msg.kind = "document"
  THEN (IF msg.file_name = NoName THEN DefaultDocName ELSE msg.file_name)
  ELSE PhotoName

\* the size test with the limit taken as 21 MiB
Oversized_21(file_size) ==
  file_size # NoSize /\ file_size # 0 /\ file_size > 21 * 1024 * 1024

\* the size test of receive_file (line 207): None and 0 are falsy
Oversized(file_size) == file_size # NoSize /\ file_size # 0 /\ file_size > MaxBytes

\* mkdtemp handing out the prefix itself, the same directory every time
mkdtemp_fixed(n) == MkPath(TmpNames[1], NoName)

\* tempfile.mkdtemp(prefix="tg_pdf_"): a directory that did not exist
mkdtemp(n) == MkPath(TmpNames[n + 1], NoName)

\* receive_file (lines 183-237); dl tells whether get_file and
\* download_to_drive succeed
ReceiveFile(k, msg, dl) ==
  /\ LoopFree
  /\ Route(conv[k], msg.kind) = "receive_file"
  /\ LET u == UserOf(k)
         base == [NoLast EXCEPT !.handler = "receive_file", !.key = k, !.from = conv[k],
                                !.over = msg.file_size > MaxBytes, !.jobDir = jobDir[k]]
     IN  IF msg.kind \notin {"document", "photo"}
         THEN /\ last' = [base EXCEPT !.branch = "not a file", !.ret = WAIT_FILE,
                                      !.replies = <<PromptReply>>]
              /\ conv' = [conv EXCEPT ![k] = WAIT_FILE]
              /\ UNCHANGED <<user_data, dirs, files, made, jobDir>>
         ELSE IF Oversized(msg.file_size)
         THEN /\ last' = [base EXCEPT !.branch = "oversized", !.ret = WAIT_FILE,
                                      !.replies = <<TooBigReply>>]
              /\ conv' = [conv EXCEPT ![k] = WAIT_FILE]
              /\ UNCHANGED <<user_data, dirs, files, made, jobDir>>
         ELSE /\ made < MaxDirs
              /\ made' = made + 1
              /\ LET work_dir == mkdtemp(made)
                     input_path == Join(work_dir, original_name(msg))
                 IN  IF ~dl
                     THEN /\ dirs' = RmtreeDirs(dirs \cup {work_dir.dir}, work_dir)
                          /\ files' = RmtreeFiles(files, work_dir)
                          /\ last' = [base EXCEPT !.branch = "download failed", !.ret = WAIT_FILE,
                                                  !.download = TRUE, !.work_dir = work_dir,
                                                  !.replies = <<DownloadFailedReply>>]
                          /\ conv' = [conv EXCEPT ![k] = WAIT_FILE]
                          /\ UNCHANGED <<user_data, jobDir>>
                     ELSE /\ dirs' = dirs \cup {work_dir.dir}
                          /\ files' = WriteFile(files, input_path, Raw(msg.blob))
                          /\ user_data' = [user_data EXCEPT ![u] =
                               dict_set(dict_set(@, "work_dir", work_dir), "input_path", input_path)]
                          /\ jobDir' = [jobDir EXCEPT ![k] = work_dir.dir]
                          /\ last' = [base EXCEPT !.branch = "stored", !.ret = WAIT_NAME,
                                                  !.download = TRUE, !.work_dir = work_dir,
                                                  !.input_path = input_path,
                                                  !.replies = <<GotItReply>>]
                          /\ conv' = [conv EXCEPT ![k] = WAIT_NAME]
  /\ UNCHANGED <<installed, children, inflight>>

\* subprocess.run has returned or raised: the child is gone (it has exited,
\* or on a timeout it was killed and waited for before TimeoutExpired is
\* re-raised)
subprocess_run_reaps(running, k, run) == running \ {k}

\* the PDFs the discovery of convert_office_to_pdf finds in work_dir
SeenAfter(F, input_path, work_dir, inst, run) ==
  IF ReachesEngine(input_path, inst) /\ RunOutcome(run, TimeoutSec) = "exit0"
  THEN {[name |-> f.name, data |-> f.data, mtime |-> f.mtime] :
          f \in GlobPdf(EngineWrites(F, input_path, work_dir, run), work_dir)}
  ELSE {}

\* the name step returning to WAIT_NAME when the conversion failed, so that
\* the next text tries again
receive_name_and_convert_return_retry(exc) == IF exc = NoExc THEN END ELSE WAIT_NAME

\* what receive_name_and_convert returns after its try statement (line 276),
\* whichever clause ran
receive_name_and_convert_return(exc) == END

\* receive_name_and_convert from the call of convert_to_pdf on (lines
\* 253-276): r is what the dispatcher did, sent tells whether reply_document
\* succeeds
Finish(k, work_dir, input_path, r, sent, run) ==
  LET u == UserOf(k)
      exc == IF r.exc # NoExc THEN r.exc ELSE IF ~sent THEN TelegramError ELSE NoExc
      spawned == IF ReachesEngine(input_path, installed) THEN 1 ELSE 0
  IN  /\ user_data' = [user_data EXCEPT ![u] = EmptyDict]
      /\ dirs' = RmtreeDirs(dirs, work_dir)
      /\ files' = RmtreeFiles(r.files, work_dir)
      /\ children' = subprocess_run_reaps(children, k, run)
      /\ inflight' = Idle
      /\ conv' = [conv EXCEPT ![k] = receive_name_and_convert_return(exc)]
      /\ jobDir' = [jobDir EXCEPT ![k] = ""]
      /\ last' = [NoLast EXCEPT
           !.handler = "receive_name_and_convert", !.key = k, !.from = WAIT_NAME,
           !.ret = receive_name_and_convert_return(exc),
           !.branch = "converted", !.jobDir = jobDir[k],
           !.replies = <<ConvertingReply>> \o
                       (IF exc = NoExc THEN <<DocumentReply, DoneReply>> ELSE <<ExceptReply(exc)>>),
           !.work_dir = work_dir, !.input_path = input_path,
           !.inData = DataAt(files, input_path),
           !.keys = IF LoopFree THEN user_data[u].keys ELSE last.keys,
           !.dispatches = 1, !.spawns = spawned, !.secs = run.secs,
           !.run = IF spawned = 1 THEN RunOutcome(run, TimeoutSec) ELSE "none",
           !.exc = exc,
           !.delivered = IF exc = NoExc THEN DataAt(r.files, r.path) ELSE NoData]
      /\ UNCHANGED <<made, installed>>

\* receive_name_and_convert (lines 239-276) when it runs to its end without
\* waiting for a child process
ReceiveNameAndConvert(k, sent) ==
  /\ LoopFree
  /\ Route(conv[k], "text") = "receive_name_and_convert"
  /\ LET u == UserOf(k)
         work_dir == Path(dict_get(user_data[u], "work_dir", EmptyStr))
         input_path == Path(dict_get(user_data[u], "input_path", EmptyStr))
     IN  IF ~Exists(dirs, files, work_dir) \/ ~Exists(dirs, files, input_path)
         THEN /\ user_data' = [user_data EXCEPT ![u] = EmptyDict]
              /\ conv' = [conv EXCEPT ![k] = END]
              /\ jobDir' = [jobDir EXCEPT ![k] = ""]
              /\ last' = [NoLast EXCEPT
                   !.handler = "receive_name_and_convert", !.key = k, !.from = WAIT_NAME,
                   !.ret = END, !.branch = "context lost", !.jobDir = jobDir[k],
                   !.work_dir = work_dir, !.input_path = input_path,
                   !.keys = user_data[u].keys,
                   !.replies = <<LostContextReply>>]
              /\ UNCHANGED <<dirs, files, made, installed, children, inflight>>
         ELSE /\ ~ReachesEngine(input_path, installed)
              /\ \E r \in convert_to_pdf(dirs, files, input_path, work_dir, installed, NoRun) :
                   Finish(k, work_dir, input_path, r, sent, NoRun)

\* receive_name_and_convert up to the point where subprocess.run (line 134)
\* has started the child and blocks waiting for it
ReceiveNameAndConvertSpawn(k) ==
  /\ LoopFree
  /\ Route(conv[k], "text") = "receive_name_and_convert"
  /\ LET u == UserOf(k)
         work_dir == Path(dict_get(user_data[u], "work_dir", EmptyStr))
         input_path == Path(dict_get(user_data[u], "input_path", EmptyStr))
     IN  /\ Exists(dirs, files, work_dir) /\ Exists(dirs, files, input_path)
         /\ ReachesEngine(input_path, installed)
         /\ inflight' = [key |-> k, work_dir |-> work_dir, input_path |-> input_path]
         /\ children' = children \cup {k}
         /\ last' = [NoLast EXCEPT
              !.handler = "receive_name_and_convert", !.key = k, !.from = WAIT_NAME,
              !.ret = WAIT_NAME, !.branch = "waiting for child", !.jobDir = jobDir[k],
              !.work_dir = work_dir, !.input_path = input_path,
              !.inData = DataAt(files, input_path),
              !.keys = user_data[u].keys,
              !.dispatches = 1, !.spawns = 1, !.run = "running",
              !.replies = <<ConvertingReply>>]
  /\ UNCHANGED <<conv, user_data, dirs, files, made, installed, jobDir>>

\* the child exits or the timeout expires: subprocess.run returns or raises
\* and the blocked handler runs to its end
SubprocessReturns(run, sent) ==
  /\ ~LoopFree
  /\ run \in SessionRuns(inflight.input_path)
  /\ \E r \in convert_to_pdf(dirs, files, inflight.input_path, inflight.work_dir, installed, run) :
       Finish(inflight.key, inflight.work_dir, inflight.input_path, r, sent, run)

\* the ways the engine run a handler is waiting for can go
PendingRuns == IF LoopFree THEN {} ELSE SessionRuns(inflight.input_path)

\* whether get_file and download_to_drive succeed, for the messages that
\* get that far (lines 207-213 return before them)
DownloadOutcomes(msg) == IF Oversized(msg.file_size) THEN {TRUE} ELSE BOOLEAN

\* an update no handler takes (Route gives "none"): nothing happens
Unhandled ==
  /\ LoopFree
  /\ {x \in Keys \X UpdateKinds : Route(conv[x[1]], x[2]) = "none"} # {}
  /\ last' = NoLast
  /\ UNCHANGED <<conv, user_data, dirs, files, made, installed, children, inflight, jobDir>>

Next ==
  \/ \E k \in Keys : Start(k)
  \/ \E k \in Keys : Cancel(k)
  \/ \E k \in Keys, msg \in Uploads : \E dl \in DownloadOutcomes(msg) : ReceiveFile(k, msg, dl)
  \/ \E k \in Keys, sent \in BOOLEAN : ReceiveNameAndConvert(k, sent)
  \/ \E k \in Keys : ReceiveNameAndConvertSpawn(k)
  \/ \E sent \in BOOLEAN : \E run \in PendingRuns : SubprocessReturns(run, sent)
  \/ Unhandled

Spec == Init /\ [][Next]_vars

\* ------------------------------------------------- the dispatcher on its own

\* convert_to_pdf applied once to a work directory that holds one input file
DispatchDir == mkdtemp(0)

DispatchInit ==
  /\ conv = [k \in Keys |-> END]
  /\ user_data = [u \in Users |-> EmptyDict]
  /\ dirs = {Cwd, DispatchDir.dir}
  /\ \E n \in DispatchNames, b \in Blobs :
       files = {MkFile(MkPath(Cwd, <<"bot", ".py">>), Raw("src"), 1),
                MkFile(Join(DispatchDir, n), Raw(b), 1)}
  /\ made = 1
  /\ installed \in Hosts
  /\ children = {}
  /\ inflight = Idle
  /\ jobDir = [k \in Keys |-> ""]
  /\ last = NoLast

Dispatch(run) ==
  /\ last = NoLast
  /\ \E f \in InDir(files, DispatchDir.dir) :
       LET input_path == MkPath(f.dir, f.name)
       IN  /\ run \in EngineRuns(input_path) \cup {NoRun}
           /\ (run = NoRun) = ~ReachesEngine(input_path, installed)
           /\ \E r \in convert_to_pdf(dirs, files, input_path, DispatchDir, installed, run) :
                /\ files' = r.files
                /\ last' = [NoLast EXCEPT
                     !.handler = "convert_to_pdf",
                     !.branch = Strategy(Lower(Suffix(input_path))),
                     !.work_dir = DispatchDir, !.input_path = input_path,
                     !.inData = f.data, !.dispatches = 1,
                     !.spawns = IF ReachesEngine(input_path, installed) THEN 1 ELSE 0,
                     !.secs = run.secs,
                     !.run = IF ReachesEngine(input_path, installed)
                             THEN RunOutcome(run, TimeoutSec) ELSE "none",
                     !.seen = SeenAfter(files, input_path, DispatchDir, installed, run),
                     !.exc = r.exc,
                     !.outData = IF r.exc = NoExc THEN DataAt(r.files, r.path) ELSE NoData]
  /\ UNCHANGED <<conv, user_data, dirs, made, installed, children, inflight, jobDir>>

DispatchNext ==
  \E name \in DispatchNames :
    \E run \in EngineRuns(MkPath(DispatchDir.dir, name)) \cup {NoRun} : Dispatch(run)

SpecDispatch == DispatchInit /\ [][DispatchNext]_vars

\* ------------------------------------------------- sanitize_filename alone

\* A text is a sequence of characters. The characters explored, by the
\* classes the code tells apart: [A-Za-z0-9 _-] (line 48), white space
\* (str.strip, \s) and everything else.
UpperLetters == {"R", "P", "D", "F"}
LowerLetters == {"a", "c", "d", "e", "f", "n", "o", "p", "r", "t", "v"}
Digits == {"7"}
KeepChars == UpperLetters \cup LowerLetters \cup Digits \cup {" ", "_", "-"}
Whitespace == {" ", "\t", "\n"}

Converted_ == <<"c", "o", "n", "v", "e", "r", "t", "e", "d">>

\* str.strip()
RECURSIVE lstrip(_)
lstrip(s) == IF s # <<>> /\ Head(s) \in Whitespace THEN lstrip(Tail(s)) ELSE s

RECURSIVE rstrip(_)
rstrip(s) ==
  IF s # <<>> /\ s[Len(s)] \in Whitespace THEN rstrip(SubSeq(s, 1, Len(s) - 1)) ELSE s

strip(s) == rstrip(lstrip(s))

\* re.sub(r"\.pdf$", "", name, flags=re.IGNORECASE) on a text that does not
\* end with a newline
sub_pdf(s) ==
  IF /\ Len(s) >= 4
     /\ s[Len(s) - 3] = "."
     /\ s[Len(s) - 2] \in {"p", "P"}
     /\ s[Len(s) - 1] \in {"d", "D"}
     /\ s[Len(s)] \in {"f", "F"}
  THEN SubSeq(s, 1, Len(s) - 4)
  ELSE s

\* re.sub(r"[class]+", rep, s): every maximal run of characters of the class
\* becomes one rep
sub_runs(s, class, rep) ==
  LET LastOfRun(i) == s[i] \notin class \/ i = Len(s) \/ s[i + 1] \notin class
      kept == SelectSeq([i \in 1..Len(s) |-> i], LastOfRun)
  IN  [j \in 1..Len(kept) |-> IF s[kept[j]] \in class THEN rep ELSE s[kept[j]]]

\* the characters explored, and those of them [^A-Za-z0-9 _-] matches
Chars == KeepChars \cup Whitespace \cup {".", "/"}
NotKept == Chars \ KeepChars

\* name[:max_len]
Slice(s, max_len) == SubSeq(s, 1, IF Len(s) < max_len THEN Len(s) ELSE max_len)

\* sanitize_filename returning name instead of name[:max_len]
sanitize_filename_uncut(name, max_len) ==
  LET n1 == strip(name)
      n4 == strip(sub_runs(sub_runs(sub_pdf(n1), NotKept, "_"), Whitespace, " "))
  IN  IF n1 = <<>> THEN Converted_
      ELSE IF n4 = <<>> THEN Converted_ ELSE n4

\* sanitize_filename (lines 41-52)
sanitize_filename(name, max_len) ==
  LET n1 == strip(name)
      n2 == sub_pdf(n1)
      n3 == sub_runs(n2, NotKept, "_")
      n4 == strip(sub_runs(n3, Whitespace, " "))
  IN  IF n1 = <<>> THEN Converted_
      ELSE Slice(IF n4 = <<>> THEN Converted_ ELSE n4, max_len)

\* the texts explored: an optional first character, nothing or 63 letters,
\* any tail of up to MaxText characters, and nothing or ".pdf" in some case
TextChars == {"a", "7", " ", "_", "-", ".", "/", "\t"}
Texts(n) == UNION {[1..m -> TextChars] : m \in 0..n}
Filler == [i \in 1..(DefaultMaxLen - 1) |-> "a"]
PdfTails == {<<>>, <<".", "p", "d", "f">>, <<".", "P", "D", "F">>, <<".", "p", "D", "f">>}
Report == <<"R", "e", "p", "o", "r", "t">>

SanitizeInputs ==
  {pre \o mid \o post \o tail :
     pre \in Texts(1), mid \in {<<>>, Filler}, post \in Texts(MaxText), tail \in PdfTails}
    \cup {<<" ", " ", " ">>, Report \o <<".", "P", "D", "F">>}

SanitizeInit ==
  /\ conv = [k \in Keys |-> END]
  /\ user_data = [u \in Users |-> EmptyDict]
  /\ dirs = {Cwd}
  /\ files = {}
  /\ made = 0
  /\ installed = {}
  /\ children = {}
  /\ inflight = Idle
  /\ jobDir = [k \in Keys |-> ""]
  /\ \E s \in SanitizeInputs : last = [NoLast EXCEPT !.handler = "text", !.text = s]

Sanitize ==
  /\ last.handler = "text"
  /\ last' = [last EXCEPT !.handler = "sanitize_filename",
                          !.desired = sanitize_filename(last.text, DefaultMaxLen)]
  /\ UNCHANGED <<conv, user_data, dirs, files, made, installed, children, inflight, jobDir>>

SpecSanitize == SanitizeInit /\ [][Sanitize]_vars

\* ------------------------------------------------------------------ claims

NameStep == "receive_name_and_convert"

\* the last handler run was a name step that went through the dispatcher
Converted == last.handler = NameStep /\ last.branch = "converted"

OfficeRouted(p) == Strategy(Lower(Suffix(p))) = "OfficeSuite"

NothingInstalled == \A i \in 1..Len(EngineCandidates) : EngineCandidates[i] \notin installed

\* C1: after a job has moved to Terminal (by the name step or by /cancel),
\* the directory its file step made no longer exists.
C1_WorkDirGoneAfterTerminal ==
  (/\ last.handler \in {"cancel", NameStep}
   /\ last.from # END /\ last.ret = END
   /\ last.jobDir # "")
    => last.jobDir \notin dirs

\* C2: a name step that finds no work_dir/input_path in the session data
\* answers with the context-loss message, does not call convert_to_pdf and
\* ends the conversation.
C2_ContextLossReported ==
  (last.handler = NameStep /\ last.keys = {})
    => /\ last.replies = <<LostContextReply>>
       /\ last.dispatches = 0
       /\ last.ret = END /\ conv[last.key] = END

\* a handler step for the conversation k
HandlerStep(k) ==
  \/ Start(k)
  \/ Cancel(k)
  \/ \E msg \in Uploads, dl \in BOOLEAN : ReceiveFile(k, msg, dl)
  \/ \E sent \in BOOLEAN : ReceiveNameAndConvert(k, sent)
  \/ ReceiveNameAndConvertSpawn(k)

\* C3: while the child process of one job is running, an event of any other
\* job that has a handler can be processed.
C3_OtherJobsProcessedDuringConversion ==
  children # {} => \A k \in Keys \ children : ENABLED HandlerStep(k)

\* C4: when the PDF was produced and reply_document fails, the name step
\* answers with a failure message, clears the session data, removes the
\* working directory and ends the conversation.
C4_DeliveryFailureCleansUp ==
  (Converted /\ last.exc = TelegramError)
    => /\ last.replies = <<ConvertingReply, Reply("Conversion failed: ", TelegramError.text)>>
       /\ user_data[UserOf(last.key)] = EmptyDict
       /\ ~Exists(dirs, files, last.work_dir)
       /\ last.ret = END /\ conv[last.key] = END

\* the content C5 asks for: that of <input stem>.pdf if the engine left it,
\* otherwise that of a most recently modified PDF
C5Wanted ==
  IF \E f \in last.seen : f.name = StemPdf(Stem(last.input_path))
  THEN {f.data : f \in {g \in last.seen : g.name = StemPdf(Stem(last.input_path))}}
  ELSE {f.data : f \in {g \in last.seen : \A h \in last.seen : h.mtime <= g.mtime}}

\* C5: for an input routed to the office backend whose engine run exits with
\* 0, the dispatcher leaves in output.pdf the content of <input stem>.pdf, or
\* of the newest PDF, and fails with NoOutputProduced only if there is no PDF.
C5_OfficeOutputNormalised ==
  (/\ last.handler = "convert_to_pdf"
   /\ OfficeRouted(last.input_path)
   /\ last.run = "exit0")
    => IF last.seen = {} THEN last.exc = NoOutputProduced
       ELSE /\ last.exc = NoExc
            /\ DataAt(files, Join(last.work_dir, OutputPdf)) \in C5Wanted

\* C6: for an input whose lower-cased suffix is .pdf the dispatcher succeeds
\* and output.pdf has the bytes of the input.
C6_PdfRoundTrip ==
  (last.handler = "convert_to_pdf" /\ Lower(Suffix(last.input_path)) = ".pdf")
    => /\ last.exc = NoExc
       /\ DataAt(files, Join(last.work_dir, OutputPdf)) = last.inData

DispatcherFailures ==
  {EngineNotFound, TimeoutExpired, CalledProcessError, NoOutputProduced, ImageOpenError}

\* C7: a name step whose dispatcher call fails with one of the failure kinds
\* answers with a reply that no other kind gets, returns normally and ends
\* the conversation.
C7_FailuresAnswered ==
  (Converted /\ last.exc \in DispatcherFailures)
    => /\ Len(last.replies) = 2
       /\ last.replies[1] = ConvertingReply
       /\ \A e \in DispatcherFailures : (ExceptReply(e) = last.replies[2]) <=> (e = last.exc)
       /\ last.ret = END /\ conv[last.key] = END

C7_Witness ==
  Converted /\ last.exc = NoOutputProduced /\ conv[last.key] = END

\* C8: when the engine runs longer than the timeout, the conversion ends as
\* the timeout failure and is answered as such, and the child is not running
\* once the handler has gone on.
C8_TimeoutKillsChild ==
  (last.handler = NameStep /\ last.secs > TimeoutSec)
    => /\ last.exc = TimeoutExpired
       /\ last.replies = <<ConvertingReply,
                           Reply("Conversion timed out. Try a smaller/simple file.", "")>>
       /\ last.key \notin children

C8_Witness ==
  Converted /\ last.secs = TimeoutSec + 1 /\ last.run = "timeout" /\ last.spawns = 1

\* C9: on a host where the locator finds no engine, no child process ever
\* runs, and the dispatch of an office-routed input fails with the
\* engine-not-found error.
C9_NoEngineNoSpawn ==
  NothingInstalled
    => /\ children = {}
       /\ (Converted /\ OfficeRouted(last.input_path))
            => last.exc = EngineNotFound /\ last.spawns = 0 /\ last.run = "none"

C9_Witness ==
  /\ NothingInstalled /\ Converted
  /\ last.input_path.name = <<"cv", ".docx">>
  /\ last.exc = EngineNotFound

\* C10: a file step for a document or photo whose declared size is above
\* 20 MiB sends the size-limit reply, attempts no download, creates no
\* directory, stores nothing in the session data and stays in AwaitingFile.
C10_OversizedRejected ==
  [][(last'.handler = "receive_file" /\ last'.over)
       => /\ last'.replies = <<TooBigReply>>
          /\ ~last'.download
          /\ last'.ret = WAIT_FILE /\ conv'[last'.key] = WAIT_FILE
          /\ dirs' = dirs /\ files' = files /\ made' = made
          /\ user_data' = user_data]_vars

C10_Witness ==
  /\ last.handler = "receive_file" /\ last.over
  /\ last.branch = "oversized" /\ conv[last.key] = WAIT_FILE

\* the step in which the update `kind` of conversation k is taken by no
\* handler
Dropped(k, kind) == Route(conv[k], kind) = "none" /\ Unhandled

\* the step in which a plain text message of conversation k is processed
TextStep(k) ==
  \/ Dropped(k, "text")
  \/ /\ Route(conv[k], "text") # "none"
     /\ last'.key = k /\ last'.handler = Route(conv[k], "text")

\* C11: a plain text message processed while the conversation is in
\* AwaitingFile leaves it in AwaitingFile and is answered with the prompt
\* for a document or a photo.
C11_TextInWaitFilePrompted ==
  [][\A k \in Keys :
       (conv[k] = WAIT_FILE /\ TextStep(k))
         => /\ conv'[k] = WAIT_FILE
            /\ last'.key = k /\ last'.replies = <<PromptReply>>]_vars

\* the directories of user v's jobs: the one v's session data refers to and
\* the ones the file steps of v's conversations made for their current job
OwnedBy(v) ==
  (IF "work_dir" \in user_data[v].keys THEN {user_data[v].work_dir.dir} ELSE {})
    \cup ({jobDir[k] : k \in {x \in Keys : UserOf(x) = v}} \ {""})

\* C12: the jobs of two distinct users never have a working directory in
\* common, and a handler step of one user's conversation neither works in
\* nor changes the other user's session data, working directory or the
\* files in it.
C12_UsersIndependent ==
  [][\A k \in Keys :
       last'.key = k
         => \A v \in Users \ {UserOf(k)} :
              /\ user_data'[v] = user_data[v]
              /\ \A x \in Keys : UserOf(x) = v => jobDir'[x] = jobDir[x]
              /\ \A d \in OwnedBy(v) :
                   /\ d \notin OwnedBy(UserOf(k))'
                   /\ d # last'.work_dir.dir
                   /\ (d \in dirs') = (d \in dirs)
                   /\ files' = files \/ InDir(files', d) = InDir(files, d)]_vars

C12_Witness ==
  /\ Converted /\ UserOf(last.key) = "u1" /\ last.keys # {}
  /\ OwnedBy("u2") # {} /\ OwnedBy("u2") \subseteq dirs
  /\ IsFile(files, user_data["u2"].input_path)
  /\ last.work_dir.dir \notin dirs

\* the classification C13 states, on the suffix as the file name has it
C13Class(suffix) ==
  CASE suffix \in {".pdf", ".PDF"} -> "PassThrough"
    [] suffix \in {".png", ".jpg", ".jpeg", ".webp", ".PNG", ".JPG"} -> "Image"
    [] suffix \in {".txt", ".md", ".log", ".csv", ".TXT"} -> "Text"
    [] OTHER -> "OfficeSuite"

\* the backend whose work a successful dispatch shows in output.pdf
C13Output(class) ==
  CASE class = "PassThrough" -> last.inData
    [] class = "Image" -> [enc |-> "img2pdf", of |-> last.inData.of]
    [] class = "Text" -> [enc |-> "reportlab", of |-> last.inData.of]
    [] OTHER -> last.outData

\* C13: every dispatch selects the backend that the lower-cased suffix of
\* the input names (.pdf PassThrough, the image suffixes Image, the text
\* suffixes Text, anything else OfficeSuite), upper case classifying like
\* lower case, and only that backend acts: the engine is started for
\* OfficeSuite alone and the output is the selected backend's.
C13_DispatchTotal ==
  last.handler = "convert_to_pdf"
    => LET class == C13Class(Suffix(last.input_path))
       IN  /\ last.branch = class
           /\ last.dispatches = 1
           /\ (last.spawns = 1) <=> (class = "OfficeSuite" /\ ~NothingInstalled)
           /\ last.exc = NoExc
                => /\ last.outData = C13Output(class)
                   /\ (last.outData.enc = "soffice") <=> (class = "OfficeSuite")

C13_Witness ==
  /\ last.handler = "convert_to_pdf"
  /\ last.input_path.name = <<"data", ".xyz">>
  /\ last.branch = "OfficeSuite" /\ last.spawns = 1
  /\ last.exc = NoExc /\ last.outData.enc = "soffice"

\* a non-empty text of letters and digits followed by ".pdf" in some case
LettersThenPdf(s) ==
  /\ Len(s) > 4
  /\ SubSeq(s, Len(s) - 3, Len(s)) \in PdfTails
  /\ \A i \in 1..(Len(s) - 4) : s[i] \in UpperLetters \cup LowerLetters \cup Digits

\* C14: with max_len 64 the result of sanitize_filename is not empty, has at
\* most 64 characters, all of them letters, digits, space, underscore or
\* hyphen; the empty text and a text of spaces give "converted"; a final
\* ".pdf" in any case is removed ("Report.PDF" gives "Report").
C14_SanitizeContract ==
  last.handler = "sanitize_filename"
    => /\ last.desired # <<>>
       /\ Len(last.desired) <= 64
       /\ \A i \in 1..Len(last.desired) :
            last.desired[i] \in UpperLetters \cup LowerLetters \cup Digits \cup {" ", "_", "-"}
       /\ last.text \in {<<>>, <<" ", " ", " ">>} => last.desired = Converted_
       /\ last.text = Report \o <<".", "P", "D", "F">> => last.desired = Report
       /\ LettersThenPdf(last.text)
            => last.desired = SubSeq(last.text, 1, IF Len(last.text) - 4 < 64
                                                     THEN Len(last.text) - 4 ELSE 64)

C14_Witness ==
  /\ last.handler = "sanitize_filename"
  /\ Len(last.text) > 64 /\ Len(last.desired) = 64
  /\ \E i \in 1..Len(last.text) : last.text[i] = "/"

\* C15: whenever the event loop takes a /cancel of a conversation that is in
\* AwaitingFile or AwaitingName, cancel handles it, and cancel answers with
\* the acknowledgement, leaves the user's session data empty and ends the
\* conversation.
C15_CancelAccepted ==
  /\ \A k \in Keys :
       (LoopFree /\ conv[k] \in {WAIT_FILE, WAIT_NAME}) => ENABLED Cancel(k)
  /\ (last.handler = "cancel" /\ last.from \in {WAIT_FILE, WAIT_NAME})
       => /\ last.replies = <<CancelReply>>
          /\ user_data[UserOf(last.key)] = EmptyDict
          /\ last.ret = END /\ conv[last.key] = END

C15_Witness ==
  /\ last.handler = "cancel" /\ last.from = WAIT_NAME /\ last.jobDir # ""
  /\ user_data[UserOf(last.key)] = EmptyDict /\ conv[last.key] = END

\* a name step of the conversation k can start
NameStepEnabled(k) ==
  ENABLED ((\E sent \in BOOLEAN : ReceiveNameAndConvert(k, sent)) \/ ReceiveNameAndConvertSpawn(k))

\* C16: a name step calls the dispatcher once and starts the engine at most
\* once, there is never more than one child process, and when the step has
\* ended, with a PDF delivered or with any failure, no child is left and no
\* further name step of that conversation can start: nothing is tried again.
C16_AtMostOneAttempt ==
  /\ Cardinality(children) <= 1
  /\ children # {} => children = {inflight.key}
  /\ Converted
       => /\ last.dispatches = 1 /\ last.spawns <= 1
          /\ children = {} /\ LoopFree
          /\ conv[last.key] = END
          /\ ~NameStepEnabled(last.key)

C16_Witness ==
  /\ Converted /\ last.exc = CalledProcessError /\ last.spawns = 1
  /\ conv[last.key] = END /\ children = {}

\* the last handler run was a file step whose get_file or download_to_drive
\* failed
DownloadFailed ==
  last.handler = "receive_file" /\ last.download /\ last.branch = "download failed"

\* C17: after a file step whose download failed, the directory it created
\* is gone with anything in it, no user's session data refers to it, the
\* reply is the download-failure message and the conversation is in
\* AwaitingFile.
C17_DownloadFailureCleansUp ==
  DownloadFailed
    => /\ last.work_dir.dir \notin dirs
       /\ InDir(files, last.work_dir.dir) = {}
       /\ \A u \in Users :
            /\ "work_dir" \in user_data[u].keys => user_data[u].work_dir # last.work_dir
            /\ "input_path" \in user_data[u].keys
                 => user_data[u].input_path.dir # last.work_dir.dir
       /\ jobDir[last.key] # last.work_dir.dir
       /\ last.replies = <<DownloadFailedReply>>
       /\ last.ret = WAIT_FILE /\ conv[last.key] = WAIT_FILE

C17_Witness ==
  /\ DownloadFailed /\ last.work_dir.dir = TmpNames[2]
  /\ TmpNames[1] \in dirs /\ conv[last.key] = WAIT_FILE

\* the directories file steps have created so far
MadeDirs == {TmpNames[i] : i \in 1..made}

\* C18: the directory a name step removes at its end is one a file step of
\* that user created with mkdtemp, and what lies outside the job
\* directories (the files of the current directory) is never deleted.
C18_CleanupOnlyJobDirs ==
  /\ Converted
       => /\ last.work_dir.dir \in MadeDirs
          /\ \A v \in Users \ {UserOf(last.key)} : last.work_dir.dir \notin OwnedBy(v)
  /\ IsFile(files, MkPath(Cwd, <<"bot", ".py">>))

\* the working directories on disk
WorkDirs == dirs \ {Cwd}

\* d is the directory the session data of a job in AwaitingName refers to
ReferencedByJob(d) ==
  \E k \in Keys :
    /\ conv[k] = WAIT_NAME
    /\ "work_dir" \in user_data[UserOf(k)].keys
    /\ user_data[UserOf(k)].work_dir.dir = d

\* C19: after a /start (also one that re-enters from AwaitingName) and after
\* a file step, every working directory on disk is the one the session data
\* of a job in AwaitingName refers to, and there are no more of them than
\* users with such a job.
C19_NoOrphanAfterReentry ==
  last.handler \in {"start", "receive_file"}
    => /\ \A d \in WorkDirs : ReferencedByJob(d)
       /\ Cardinality(WorkDirs)
            <= Cardinality({UserOf(k) : k \in {x \in Keys : conv[x] = WAIT_NAME}})

\* C20: a name step that finds paths in the session data converts the file
\* that the file step of its own conversation stored, in the directory that
\* file step made, and that directory is gone when the step has ended.
C20_OwnUploadConverted ==
  (Converted /\ last.keys # {})
    => /\ last.jobDir # ""
       /\ last.work_dir.dir = last.jobDir
       /\ last.input_path.dir = last.jobDir
       /\ last.jobDir \notin dirs

====
